---- MODULE Spec2Model ----
(***************************************************************************)
(* Shoe store: session cart, checkout / order placement, order             *)
(* cancellation and the admin back-office operations that touch stock and  *)
(* order status.                                                           *)
(*                                                                         *)
(* Money is counted in hundredths of a cent (10000 to the dollar): prices   *)
(* are whole numbers of cents, and the tax, subtotal * 0.08 with no         *)
(* rounding, is then a whole number of units.  The rounding error of the    *)
(* floating-point product is not modelled.                                  *)
(* A handler that awaits the database more than once (checkout, cancel,    *)
(* review, the admin updates) is one action per database operation; the    *)
(* other handlers are one action.  A request ends in pc = "done" holding   *)
(* its response, and Respond returns the session to "idle".  Between two   *)
(* database operations of a handler the requests of the other clients go   *)
(* on.                                                                     *)
(***************************************************************************)
EXTENDS Integers, Sequences, FiniteSets, TLC

VARIABLES
    products,   \* the product collection: id -> document
    carts,      \* req.session.cart of each session
    users,      \* req.session.user of each session
    accounts,   \* the user collection: the registered users
    orders,     \* the order collection, in insertion order
    clock,      \* the server's clock: the year and month of new Date()
    req,        \* the request each session, and the admin, has in flight,
                \* or its response
    ledger      \* history variable: for each order, the products when its
                \* checkout started and whether nothing but its checkout and its
                \* first cancel has written stock or sold-count since

vars == <<products, carts, users, accounts, orders, clock, req, ledger>>

----------------------------------------------------------------------------
(* Bounds of the model *)

\* cart lines held by all the session carts together
MaxLines == 2
\* orders the order collection may hold
MaxOrders == 2
\* status-history entries an order may hold before the admin stops updating it
MaxHistory == 2
\* the version key a product may reach before the admin stops editing it
MaxVersion == 2
\* months the clock moves on
MaxTicks == 1
\* stock of the seeded size entries
InitStock == 2
\* status-history entries of an order where its whole life is followed
MaxEntries == 3

----------------------------------------------------------------------------
(* Program constants *)

FreeShippingThreshold == 1000000
ShippingFee == 99900
TaxPercent == 8
ExpressFee == 199900
OvernightFee == 299900

Sessions == {"s1", "s2"}
\* the admin's browser, sending the back-office requests
Admin == "admin"
Clients == Sessions \cup {Admin}
Products == {"p1", "p2"}
NoUser == "none"
\* getFullYear() and getMonth() + 1 of the clock at the start: 2026-10
FirstMonth == 202610
\* the size of an entry of a size list that has none
NoSize == 0

\* what a client may send as size, color and quantity
SizeInputs == {"9", "9.0", "10"}
Undefined == "undefined"
ColorInputs == {"red", Undefined}
QtyInputs == {0, 1, 2}

OrderStatuses ==
    {"pending", "confirmed", "processing", "shipped", "delivered", "cancelled", "refunded"}

----------------------------------------------------------------------------
(* Pure helpers *)

\* parseFloat on the size strings a client sends
ParseFloat(str) ==
    CASE str = "9" -> 9
      [] str = "9.0" -> 9
      [] str = "10" -> 10
      [] str = "11" -> 11

\* Array.prototype.findIndex, 1-based; 0 stands for JavaScript's -1
\* over the set of matching positions: the first one
FindIndex(matching) ==
    IF matching = {} THEN 0 ELSE CHOOSE k \in matching : \A j \in matching : k <= j

\* product.sizes.findIndex(s => s.size === size)
SizeIndex(sizes, size) ==
    FindIndex({k \in 1..Len(sizes) : sizes[k].size = size})

\* mutant of Splice: the last element is removed
SpliceLast(seq, k) == SubSeq(seq, 1, Len(seq) - 1)

\* Array.prototype.splice(index, 1)
Splice(seq, k) == [j \in 1..(Len(seq) - 1) |-> IF j < k THEN seq[j] ELSE seq[j + 1]]

\* this.sizes.reduce((sum, s) => sum + s.stock, 0)
RECURSIVE SumStock(_)
SumStock(sizes) ==
    IF sizes = <<>> THEN 0 ELSE sizes[1].stock + SumStock(Tail(sizes))

\* cart.items.reduce((sum, item) => sum + item.price * item.quantity, 0)
RECURSIVE SumItems(_)
SumItems(items) ==
    IF items = <<>> THEN 0
    ELSE items[1].price * items[1].quantity + SumItems(Tail(items))

\* productSchema.virtual('effectivePrice'); salePrice is <<>> when unset.
\* A sale price of 0 is falsy in JavaScript.
effectivePrice(product) ==
    IF product.salePrice # <<>> /\ product.salePrice[1] # 0
       /\ product.salePrice[1] < product.price
    THEN product.salePrice[1]
    ELSE product.price

----------------------------------------------------------------------------
(* Session cart *)

EmptyCart == [items |-> <<>>, subtotal |-> 0, shipping |-> 0, tax |-> 0, total |-> 0]

\* req.session.cart is undefined until a handler initialises it
NoCart == [present |-> FALSE, cart |-> EmptyCart]

HasCart(c) == [present |-> TRUE, cart |-> c]

initCart(sc) == IF sc.present THEN sc.cart ELSE EmptyCart

\* mutant of calculateTotals: the tax is left out of the total
calculateTotalsNoTax(cart) ==
    LET subtotal == SumItems(cart.items)
        shipping == IF subtotal >= FreeShippingThreshold THEN 0 ELSE ShippingFee
        tax == (subtotal * TaxPercent) \div 100
    IN [items |-> cart.items, subtotal |-> subtotal, shipping |-> shipping,
        tax |-> tax, total |-> subtotal + shipping]

\* cart.subtotal, cart.shipping, cart.tax = cart.subtotal * 0.08 and
\* cart.total; the subtotal is a multiple of 100 units, so the division
\* leaves no remainder
calculateTotals(cart) ==
    LET subtotal == SumItems(cart.items)
        shipping == IF subtotal >= FreeShippingThreshold THEN 0 ELSE ShippingFee
        tax == (subtotal * TaxPercent) \div 100
    IN [items |-> cart.items, subtotal |-> subtotal, shipping |-> shipping,
        tax |-> tax, total |-> subtotal + shipping + tax]

----------------------------------------------------------------------------
(* Requests *)

Idle == [pc |-> "idle"]

Done(op, code, msg) == [pc |-> "done", op |-> op, code |-> code, msg |-> msg]

AllIdle == \A c \in Clients : req[c] = Idle

RECURSIVE SumLines(_)
SumLines(S) ==
    IF S = {} THEN 0
    ELSE LET s == CHOOSE x \in S : TRUE
         IN Len(carts[s].cart.items) + SumLines(S \ {s})

\* the model's bound on cart growth: room for one more line
RoomForLine == SumLines(Sessions) < MaxLines

Deleted == [exists |-> FALSE]

----------------------------------------------------------------------------
(* Initial state: the seeded catalog, no carts, no orders.  The documents   *)
(* mongo-init.js inserts have no version key and no reviews field: both are *)
(* <<>> until a save writes them, <<n>> and <<list>> afterwards             *)

Init ==
    /\ products =
         [p \in Products |->
            IF p = "p1"
            THEN [exists |-> TRUE, price |-> 600000, salePrice |-> <<>>,
                  sizes |-> <<[size |-> 9, stock |-> InitStock],
                              [size |-> 11, stock |-> 1]>>,
                  totalStock |-> InitStock + 1, soldCount |-> 0,
                  reviews |-> <<>>, v |-> <<>>]
            ELSE [exists |-> TRUE, price |-> 400000, salePrice |-> <<299900>>,
                  sizes |-> <<[size |-> 10, stock |-> 1],
                              [size |-> 11, stock |-> 0]>>,
                  totalStock |-> 1, soldCount |-> 0,
                  reviews |-> <<>>, v |-> <<>>]]
    /\ carts = [s \in Sessions |-> NoCart]
    /\ users = [s \in Sessions |-> IF s = "s1" THEN "u1" ELSE "u2"]
    /\ accounts = {"u1", "u2"}
    /\ orders = <<>>
    /\ clock = FirstMonth
    /\ req = [c \in Clients |-> Idle]
    /\ ledger = <<>>

----------------------------------------------------------------------------
(* POST /api/cart/add *)

\* cart.items.findIndex(item => item.productId === productId &&
\*     item.size === parseFloat(size) && item.color === color)
ExistingIndex(items, productId, size, color) ==
    FindIndex({k \in 1..Len(items) : /\ items[k].productId = productId
                                      /\ items[k].size = ParseFloat(size)
                                      /\ items[k].color = color})

AddToCart(s, productId, size, color, quantity) ==
    /\ UNCHANGED <<accounts, clock>>
    /\ req[s] = Idle
    /\ UNCHANGED <<products, users, orders, ledger>>
    /\ LET product == products[productId] IN
       IF ~product.exists
       THEN /\ req' = [req EXCEPT ![s] = Done("add", 404, "Product not found")]
            /\ UNCHANGED carts
       ELSE
       LET k == SizeIndex(product.sizes, ParseFloat(size)) IN
       IF k = 0 \/ product.sizes[k].stock < quantity
       THEN /\ req' = [req EXCEPT ![s] = Done("add", 400, "Selected size is not available")]
            /\ UNCHANGED carts
       ELSE
       LET sizeOption == product.sizes[k]
           cart == initCart(carts[s])
           existingIndex == ExistingIndex(cart.items, productId, size, color)
       IN
       IF existingIndex > 0
       THEN LET newQty == cart.items[existingIndex].quantity + quantity IN
            IF newQty > sizeOption.stock
            THEN /\ req' = [req EXCEPT ![s] = Done("add", 400, "Only n items available")]
                 /\ UNCHANGED carts
            ELSE /\ carts' = [carts EXCEPT ![s] = HasCart(calculateTotals(
                        [cart EXCEPT !.items[existingIndex].quantity = newQty]))]
                 /\ req' = [req EXCEPT ![s] = Done("add", 200, "Item added to cart")]
       ELSE /\ RoomForLine
            /\ carts' = [carts EXCEPT ![s] = HasCart(calculateTotals(
                   [cart EXCEPT !.items = Append(@,
                       [productId |-> productId,
                        price |-> effectivePrice(product),
                        size |-> ParseFloat(size),
                        color |-> IF color = Undefined THEN "Default" ELSE color,
                        quantity |-> quantity,
                        maxStock |-> sizeOption.stock])]))]
            /\ req' = [req EXCEPT ![s] = Done("add", 200, "Item added to cart")]

----------------------------------------------------------------------------
(* PUT /api/cart/update, DELETE /api/cart/remove, DELETE /api/cart/clear *)

\* cart.items.findIndex(item => item.productId === productId &&
\*     item.size === parseFloat(size))
ItemIndex(items, productId, size) ==
    FindIndex({k \in 1..Len(items) : /\ items[k].productId = productId
                                      /\ items[k].size = ParseFloat(size)})

\* mutant of SetQuantity: the quantity is added to the line's quantity
AddQuantity(items, k, quantity) == [items EXCEPT ![k].quantity = @ + quantity]

\* cart.items[itemIndex].quantity = parseInt(quantity)
SetQuantity(items, k, quantity) == [items EXCEPT ![k].quantity = quantity]

UpdateCart(s, productId, size, quantity) ==
    /\ UNCHANGED <<accounts, clock>>
    /\ req[s] = Idle
    /\ UNCHANGED <<products, users, orders, ledger>>
    /\ LET cart == initCart(carts[s])
           itemIndex == ItemIndex(cart.items, productId, size)
       IN
       IF itemIndex = 0
       THEN /\ carts' = [carts EXCEPT ![s] = HasCart(cart)]
            /\ req' = [req EXCEPT ![s] = Done("update", 404, "Item not found in cart")]
       ELSE IF quantity <= 0
       THEN /\ carts' = [carts EXCEPT ![s] = HasCart(calculateTotals(
                   [cart EXCEPT !.items = Splice(@, itemIndex)]))]
            /\ req' = [req EXCEPT ![s] = Done("update", 200, "Cart updated")]
       ELSE
       LET product == products[productId]
           k == IF product.exists THEN SizeIndex(product.sizes, ParseFloat(size)) ELSE 0
       IN
       IF k = 0
       THEN \* product or sizeOption is undefined: TypeError, caught
            /\ carts' = [carts EXCEPT ![s] = HasCart(cart)]
            /\ req' = [req EXCEPT ![s] = Done("update", 500, "Failed to update cart")]
       ELSE IF quantity > product.sizes[k].stock
       THEN /\ carts' = [carts EXCEPT ![s] = HasCart(cart)]
            /\ req' = [req EXCEPT ![s] = Done("update", 400, "Only n items available")]
       ELSE /\ carts' = [carts EXCEPT ![s] = HasCart(calculateTotals(
                   [cart EXCEPT !.items = SetQuantity(@, itemIndex, quantity)]))]
            /\ req' = [req EXCEPT ![s] = Done("update", 200, "Cart updated")]

RemoveFromCart(s, productId, size) ==
    /\ UNCHANGED <<accounts, clock>>
    /\ req[s] = Idle
    /\ UNCHANGED <<products, users, orders, ledger>>
    /\ LET cart == initCart(carts[s])
           itemIndex == ItemIndex(cart.items, productId, size)
       IN
       IF itemIndex = 0
       THEN /\ carts' = [carts EXCEPT ![s] = HasCart(cart)]
            /\ req' = [req EXCEPT ![s] = Done("remove", 404, "Item not found in cart")]
       ELSE /\ carts' = [carts EXCEPT ![s] = HasCart(calculateTotals(
                   [cart EXCEPT !.items = Splice(@, itemIndex)]))]
            /\ req' = [req EXCEPT ![s] = Done("remove", 200, "Item removed from cart")]

ClearCart(s) ==
    /\ UNCHANGED <<accounts, clock>>
    /\ req[s] = Idle
    /\ UNCHANGED <<products, users, orders, ledger>>
    /\ carts' = [carts EXCEPT ![s] = HasCart(EmptyCart)]
    /\ req' = [req EXCEPT ![s] = Done("clear", 200, "Cart cleared")]

\* GET /api/cart and GET /api/cart/count: initCart(req) gives a session
\* without a cart the empty cart; the cart (or its count) is sent
GetCart(s) ==
    /\ UNCHANGED <<accounts, clock>>
    /\ req[s] = Idle
    /\ UNCHANGED <<products, users, orders, ledger>>
    /\ carts' = [carts EXCEPT ![s] = HasCart(initCart(carts[s]))]
    /\ req' = [req EXCEPT ![s] = Done("get", 200, "cart")]

\* res.json(...) has been sent; the session takes its next request
Respond(s) ==
    /\ UNCHANGED <<accounts, clock>>
    /\ req[s].pc = "done"
    /\ req' = [req EXCEPT ![s] = Idle]
    /\ UNCHANGED <<products, carts, users, orders, ledger>>

----------------------------------------------------------------------------
(* POST /api/orders: checkout *)

\* the shopper of Spec has everything shipped the standard way; ShipSpec goes
\* through the shipping methods
ShippingInputs == {"standard"}
PaymentInputs == {"card", "bitcoin", Undefined}
PaymentMethods == {"card", "paypal", "cod"}

\* app.use('/api/orders', orderRoutes); URLs are lists of path segments
OrderMount == <<"api", "orders">>
CheckoutUrl == <<"api", "orders">>
CancelUrl == <<"api", "orders", "id", "cancel">>

\* req.path inside the router: the URL with the mount point stripped
ReqPath(url) == SubSeq(url, Len(OrderMount) + 1, Len(url))

\* path.startsWith('/api/')
StartsWithApi(path) == Len(path) >= 2 /\ path[1] = "api"

\* what the handler started from, kept with the request for the properties
Pre(s) == [products |-> products, orders |-> orders, cart |-> carts[s], id |-> 0]

\* the response of a checkout or cancel request; seen lists, for each stock
\* check the request passed, the stock it read and the requests of other
\* sessions that stood between their check and their save at that moment
DoneWith(op, code, msg, pre, seen) ==
    [pc |-> "done", op |-> op, code |-> code, msg |-> msg, pre |-> pre, seen |-> seen]

\* isAuthenticated without req.session.user: JSON 401 for a path under /api/,
\* otherwise a redirect to the login page
Unauthenticated(op, url, pre) ==
    IF StartsWithApi(ReqPath(url))
    THEN DoneWith(op, 401, "Please login to continue", pre, <<>>)
    ELSE DoneWith(op, 302, "/auth/login", pre, <<>>)

\* history: every order's products have been written by someone else,
\* except the order (if any) whose own cancellation is writing
Dirty(except) ==
    [k \in 1..Len(ledger) |->
        IF k = except THEN ledger[k] ELSE [ledger[k] EXCEPT !.clean = FALSE]]

\* mutant of CartIsEmpty: only a missing cart is refused
CartIsMissing(sc) == ~sc.present

\* !cart || !cart.items || cart.items.length === 0
CartIsEmpty(sc) == ~sc.present \/ sc.cart.items = <<>>

\* mutant of ShippingCost: standard shipping is never free
ShippingCostFlat(shippingMethod, subtotal) ==
    CASE shippingMethod = "express" -> ExpressFee
      [] shippingMethod = "overnight" -> OvernightFee
      [] OTHER -> ShippingFee

\* the switch on shippingMethod
ShippingCost(shippingMethod, subtotal) ==
    CASE shippingMethod = "express" -> ExpressFee
      [] shippingMethod = "overnight" -> OvernightFee
      [] OTHER -> IF subtotal >= FreeShippingThreshold THEN 0 ELSE ShippingFee

\* orderSchema validation run by Order.create, on the document with the
\* schema defaults applied
OrderValid(order) ==
    /\ \A k \in 1..Len(order.items) : order.items[k].quantity >= 1
    /\ order.paymentMethod \in PaymentMethods

\* mutant of ReducedStock: the sold-count is not raised
ReducedStockOnly(product, k, quantity) ==
    LET sizes == [product.sizes EXCEPT ![k].stock = @ - quantity]
    IN [product EXCEPT !.sizes = sizes, !.totalStock = SumStock(sizes)]

\* the document as the handler leaves it before product.save(): stock and
\* soldCount assigned by the handler, totalStock recomputed by the pre-save hook
ReducedStock(product, k, quantity) ==
    LET sizes == [product.sizes EXCEPT ![k].stock = @ - quantity]
    IN [product EXCEPT !.sizes = sizes,
                       !.soldCount = @ + quantity,
                       !.totalStock = SumStock(sizes)]

\* productSchema validation, run by every save on the whole document: price
\* and salePrice min 0, and for every entry of sizes, size required and
\* stock min 0
ProductValid(doc) ==
    /\ doc.price >= 0
    /\ doc.salePrice = <<>> \/ doc.salePrice[1] >= 0
    /\ \A j \in 1..Len(doc.sizes) :
           doc.sizes[j].size # NoSize /\ doc.sizes[j].stock >= 0

\* the version key __v of a document; the documents mongo-init.js inserts
\* have none (<<>>)
Version(doc) == IF doc.v = <<>> THEN 0 ELSE doc.v[1]

\* the reviews of a document; a document without the field is loaded with
\* the schema default, the empty list
Reviews(doc) == IF doc.reviews = <<>> THEN <<>> ELSE doc.reviews[1]

\* the filter of a versioned save carries the version key the document was
\* loaded with, when it was loaded with one
VersionConflict(stored, loaded) == loaded.v # <<>> /\ stored.v # loaded.v

\* the positions of sizes whose stock the handler changed: the save sends
\* $set {'sizes.<j>.stock': n} for each
StockSet(loaded, modified) ==
    {j \in 1..Len(loaded.sizes) : modified.sizes[j].stock # loaded.sizes[j].stock}

\* the reviews path got its schema default on load: the save sends
\* $set {reviews: []} with it, and a $set of an array is versioned and
\* increments the version key
DefaultSet(loaded) == loaded.reviews = <<>>

\* an array element MongoDB fills a skipped position with (null); not reached
\* with size lists of one or two entries
NullEntry == [size |-> NoSize, stock |-> 0]

\* MongoDB applying the $set of stocks by position to the stored array: an
\* element that exists takes the stock; a position beyond the end of the
\* array is created, holding the stock and no size
SetStocks(sizes, loaded, modified) ==
    LET written == StockSet(loaded, modified)
        ends == written \cup {Len(sizes)}
        last == CHOOSE k \in ends : \A j \in ends : j <= k
    IN [j \in 1..last |->
          IF j \in written
          THEN IF j <= Len(sizes)
               THEN [sizes[j] EXCEPT !.stock = modified.sizes[j].stock]
               ELSE [size |-> NoSize, stock |-> modified.sizes[j].stock]
          ELSE IF j <= Len(sizes) THEN sizes[j] ELSE NullEntry]

\* mutant of SaveProduct: the save decrements what is stored ($inc) instead of
\* writing the values computed from the loaded document
SaveProductInc(stored, loaded, modified) ==
    LET sizes == [j \in 1..Len(stored.sizes) |->
                    IF j <= Len(loaded.sizes)
                    THEN [stored.sizes[j] EXCEPT
                            !.stock = @ + modified.sizes[j].stock - loaded.sizes[j].stock]
                    ELSE stored.sizes[j]]
    IN [stored EXCEPT !.sizes = sizes,
                      !.soldCount = @ + modified.soldCount - loaded.soldCount,
                      !.totalStock = SumStock(sizes),
                      !.reviews = IF DefaultSet(loaded) THEN << <<>> >> ELSE @,
                      !.v = IF DefaultSet(loaded) THEN <<Version(stored) + 1>> ELSE @]

\* product.save() of the checkout: the paths the handler modified are written
\* over the stored document, the stocks by position; a reviews path that was
\* defaulted on load is written as the empty list and the version key
\* incremented; the other paths keep what is stored
SaveProduct(stored, loaded, modified) ==
    [stored EXCEPT
       !.sizes = SetStocks(@, loaded, modified),
       !.soldCount = IF modified.soldCount # loaded.soldCount
                     THEN modified.soldCount ELSE @,
       !.totalStock = IF modified.totalStock # loaded.totalStock
                      THEN modified.totalStock ELSE @,
       !.reviews = IF DefaultSet(loaded) THEN << <<>> >> ELSE @,
       !.v = IF DefaultSet(loaded) THEN <<Version(stored) + 1>> ELSE @]

\* the save fails: a deleted document matches no filter; a save that sets a
\* position of sizes or an array is versioned, and its filter does not match
\* a document whose version key is no longer the one loaded
SaveConflict(stored, loaded, modified) ==
    \/ ~stored.exists
    \/ /\ StockSet(loaded, modified) # {} \/ DefaultSet(loaded)
       /\ VersionConflict(stored, loaded)

StartCheckout(s, shippingMethod, paymentMethod) ==
    /\ UNCHANGED <<accounts, clock>>
    /\ req[s] = Idle
    /\ Len(orders) < MaxOrders
    /\ UNCHANGED <<products, carts, users, orders, ledger>>
    /\ IF users[s] = NoUser
       THEN req' = [req EXCEPT ![s] = Unauthenticated("checkout", CheckoutUrl, Pre(s))]
       ELSE IF CartIsEmpty(carts[s])
       THEN req' = [req EXCEPT ![s] =
                DoneWith("checkout", 400, "Cart is empty", Pre(s), <<>>)]
       ELSE req' = [req EXCEPT ![s] =
                [pc |-> IF carts[s].cart.items = <<>> THEN "create" ELSE "find",
                 op |-> "checkout", cart |-> carts[s].cart, i |-> 1,
                 doc |-> Deleted, orderItems |-> <<>>, date |-> 0,
                 shippingMethod |-> shippingMethod, paymentMethod |-> paymentMethod,
                 pre |-> Pre(s), seen |-> <<>>]]

\* the requests of other sessions that have passed the stock check of the
\* same product/size and have not saved yet
Unsaved(s, item) ==
    {[session |-> t, pre |-> req[t].pre] :
        t \in {u \in Sessions \ {s} :
                  /\ req[u].pc = "save"
                  /\ req[u].cart.items[req[u].i].productId = item.productId
                  /\ req[u].cart.items[req[u].i].size = item.size}}

\* await Product.findById(item.productId) and the checks on what it returned
CheckoutFind(s) ==
    /\ UNCHANGED <<accounts, clock>>
    /\ req[s].pc = "find"
    /\ UNCHANGED <<products, carts, users, orders, ledger>>
    /\ LET r == req[s]
           item == r.cart.items[r.i]
           product == products[item.productId]
       IN
       IF ~product.exists
       THEN req' = [req EXCEPT ![s] =
                DoneWith("checkout", 400, "Product no longer exists", r.pre, r.seen)]
       ELSE
       LET sizeIndex == SizeIndex(product.sizes, item.size) IN
       IF sizeIndex = 0 \/ product.sizes[sizeIndex].stock < item.quantity
       THEN req' = [req EXCEPT ![s] =
                DoneWith("checkout", 400, "No longer available in requested quantity",
                         r.pre, r.seen)]
       ELSE req' = [req EXCEPT ![s] =
                [r EXCEPT !.pc = "save", !.doc = product,
                          !.seen = Append(@, [stock |-> product.sizes[sizeIndex].stock,
                                              beside |-> Unsaved(s, item)])]]

\* mutant of OrderItem: the order line takes the product's price at checkout
OrderItemRepriced(item, product) ==
    [product |-> item.productId, price |-> effectivePrice(product),
     size |-> item.size, color |-> item.color, quantity |-> item.quantity]

\* orderItems.push({product, price: item.price, size, color, quantity})
OrderItem(item, product) ==
    [product |-> item.productId, price |-> item.price,
     size |-> item.size, color |-> item.color, quantity |-> item.quantity]

\* the stock reduction, await product.save(), orderItems.push(...); a
\* validation error or a failed save ends in the catch (500)
CheckoutSave(s) ==
    /\ UNCHANGED <<accounts, clock>>
    /\ req[s].pc = "save"
    /\ UNCHANGED <<carts, users, orders>>
    /\ LET r == req[s]
           item == r.cart.items[r.i]
           loaded == r.doc
           modified == ReducedStock(loaded, SizeIndex(loaded.sizes, item.size), item.quantity)
           stored == products[item.productId]
       IN
       IF ~ProductValid(modified) \/ SaveConflict(stored, loaded, modified)
       THEN /\ UNCHANGED <<products, ledger>>
            /\ req' = [req EXCEPT ![s] =
                   DoneWith("checkout", 500, "Failed to place order", r.pre, r.seen)]
       ELSE /\ products' = [products EXCEPT
                   ![item.productId] = SaveProduct(stored, loaded, modified)]
            /\ ledger' = Dirty(0)
            /\ req' = [req EXCEPT ![s] =
                   [r EXCEPT !.pc = IF r.i = Len(r.cart.items) THEN "create" ELSE "find",
                             !.i = @ + 1,
                             !.doc = Deleted,
                             !.orderItems = Append(@, OrderItem(item, loaded))]]

\* orderSchema.pre('save'): 'ORD', the year and month of the date, and
\* count + 1 padded to six digits: the two parts of the string
OrderNumber(date, count) == <<date, count + 1>>

\* the order document handed to Order.create, with the number the hook gives it
NewOrder(user, r, date, count) ==
    LET shippingCost == ShippingCost(r.shippingMethod, r.cart.subtotal) IN
    [user |-> user,
     items |-> r.orderItems,
     paymentMethod |-> IF r.paymentMethod = Undefined THEN "card"
                       ELSE r.paymentMethod,
     subtotal |-> r.cart.subtotal,
     shipping |-> [method |-> IF r.shippingMethod = Undefined THEN "standard"
                                ELSE r.shippingMethod,
                   cost |-> shippingCost],
     tax |-> r.cart.tax,
     total |-> r.cart.subtotal + shippingCost + r.cart.tax,
     status |-> "confirmed",
     statusHistory |-> <<"confirmed">>,
     trackingNumber |-> Undefined,
     orderNumber |-> OrderNumber(date, count)]

\* Order.create: validation, then the pre-save hook up to its await: the
\* hook reads the clock (new Date()) and asks for the count
CheckoutCreate(s) ==
    /\ UNCHANGED <<accounts, clock>>
    /\ req[s].pc = "create"
    /\ UNCHANGED <<products, carts, users, orders, ledger>>
    /\ LET r == req[s] IN
       IF ~OrderValid(NewOrder(users[s], r, clock, 0))
       THEN req' = [req EXCEPT ![s] =
                DoneWith("checkout", 500, "Failed to place order", r.pre, r.seen)]
       ELSE req' = [req EXCEPT ![s] = [r EXCEPT !.pc = "count", !.date = clock]]

\* await mongoose.model('Order').countDocuments() and the order number
CheckoutCount(s) ==
    /\ UNCHANGED <<accounts, clock>>
    /\ req[s].pc = "count"
    /\ UNCHANGED <<products, carts, users, orders, ledger>>
    /\ LET r == req[s] IN
       req' = [req EXCEPT ![s] =
                [pc |-> "insert", op |-> "checkout", pre |-> r.pre, seen |-> r.seen,
                 order |-> NewOrder(users[s], r, r.date, Len(orders))]]

\* the clock passes the end of a month
Tick ==
    /\ clock < FirstMonth + MaxTicks
    /\ clock' = clock + 1
    /\ UNCHANGED <<products, carts, users, accounts, orders, req, ledger>>

\* mutant of DuplicateKey: no unique index on orderNumber
DuplicateKeyIgnored(order) == FALSE

\* the unique index on orderNumber rejects the insert (E11000)
DuplicateKey(order) ==
    \E k \in 1..Len(orders) : orders[k].orderNumber = order.orderNumber

\* stock and sold-count of every product
StockView(ps) ==
    [p \in Products |->
        IF ps[p].exists THEN [sizes |-> ps[p].sizes, soldCount |-> ps[p].soldCount]
        ELSE Deleted]

\* history: the products as the stock reductions of the order lines, and
\* nothing else, leave them
RECURSIVE Taken(_, _)
Taken(ps, items) ==
    IF items = <<>> THEN ps
    ELSE LET doc == ps[items[1].product]
             k == IF doc.exists THEN SizeIndex(doc.sizes, items[1].size) ELSE 0
         IN Taken(IF k = 0 THEN ps
                  ELSE [ps EXCEPT ![items[1].product] =
                           ReducedStock(doc, k, items[1].quantity)],
                  Tail(items))

\* the insert (orderNumber is a unique index), then the cart reset
CheckoutInsert(s) ==
    /\ UNCHANGED <<accounts, clock>>
    /\ req[s].pc = "insert"
    /\ UNCHANGED <<products, users>>
    /\ LET r == req[s] IN
       IF DuplicateKey(r.order)
       THEN /\ UNCHANGED <<orders, carts, ledger>>
            /\ req' = [req EXCEPT ![s] =
                   DoneWith("checkout", 500, "Failed to place order", r.pre, r.seen)]
       ELSE /\ orders' = Append(orders, r.order)
            /\ ledger' = Append(ledger,
                   [before |-> r.pre.products,
                    clean |-> StockView(products)
                                = StockView(Taken(r.pre.products, r.order.items)),
                    begun |-> FALSE, given |-> 0])
            /\ carts' = [carts EXCEPT ![s] = HasCart(EmptyCart)]
            /\ req' = [req EXCEPT ![s] =
                   DoneWith("checkout", 201, "Order placed successfully", r.pre, r.seen)]

----------------------------------------------------------------------------
(* POST /api/orders/:id/cancel *)

OrderIds == 1..MaxOrders

\* order.status of a loaded order: an order stored without a status is
\* loaded with the schema default
StatusOf(order) == IF order.status = Undefined THEN "pending" ELSE order.status

\* mutant of Cancellable: every order not yet cancelled may be cancelled
CancellableUnlessCancelled(status) == status # "cancelled"

\* ['pending', 'confirmed'].includes(order.status)
Cancellable(status) == status \in {"pending", "confirmed"}

\* mutant of RestoreStock: a size that is not listed is added to the list
RestoreStockUpsert(stored, item) ==
    IF ~stored.exists THEN stored
    ELSE IF \A j \in 1..Len(stored.sizes) : stored.sizes[j].size # item.size
    THEN [stored EXCEPT
            !.sizes = Append(@, [size |-> item.size, stock |-> item.quantity]),
            !.soldCount = @ - item.quantity]
    ELSE [stored EXCEPT
            !.sizes = [j \in 1..Len(stored.sizes) |->
                         IF stored.sizes[j].size = item.size
                         THEN [stored.sizes[j] EXCEPT !.stock = @ + item.quantity]
                         ELSE stored.sizes[j]],
            !.soldCount = @ - item.quantity]

\* mutant of RestoreStock: the sold-count is not lowered
RestoreStockOnly(stored, item) ==
    IF ~stored.exists THEN stored
    ELSE [stored EXCEPT
            !.sizes = [j \in 1..Len(stored.sizes) |->
                         IF stored.sizes[j].size = item.size
                         THEN [stored.sizes[j] EXCEPT !.stock = @ + item.quantity]
                         ELSE stored.sizes[j]]]

\* Product.findByIdAndUpdate(item.product, {$inc: {'sizes.$[elem].stock':
\* item.quantity, soldCount: -item.quantity}}, {arrayFilters: [{'elem.size':
\* item.size}]}): no hook, no validation, nothing done for a missing product
RestoreStock(stored, item) ==
    IF ~stored.exists THEN stored
    ELSE [stored EXCEPT
            !.sizes = [j \in 1..Len(stored.sizes) |->
                         IF stored.sizes[j].size = item.size
                         THEN [stored.sizes[j] EXCEPT !.stock = @ + item.quantity]
                         ELSE stored.sizes[j]],
            !.soldCount = @ - item.quantity]

\* mutant of OrderMissing: the order is looked up by its id alone
OrderMissingById(id, user) == id > Len(orders)

\* Order.findOne({_id: req.params.id, user: req.session.user.id}) finds nothing
OrderMissing(id, user) == id > Len(orders) \/ orders[id].user # user

StartCancel(s, id) ==
    /\ UNCHANGED <<accounts, clock>>
    /\ req[s] = Idle
    /\ UNCHANGED <<products, carts, users, orders>>
    /\ LET pre == [Pre(s) EXCEPT !.id = id] IN
       IF users[s] = NoUser
       THEN /\ req' = [req EXCEPT ![s] = Unauthenticated("cancel", CancelUrl, pre)]
            /\ UNCHANGED ledger
       ELSE IF OrderMissing(id, users[s])
       THEN /\ req' = [req EXCEPT ![s] =
                   DoneWith("cancel", 404, "Order not found", pre, <<>>)]
            /\ UNCHANGED ledger
       ELSE IF ~Cancellable(StatusOf(orders[id]))
       THEN /\ req' = [req EXCEPT ![s] =
                   DoneWith("cancel", 400, "Order cannot be cancelled at this stage",
                            pre, <<>>)]
            /\ UNCHANGED ledger
       ELSE /\ req' = [req EXCEPT ![s] =
                   [pc |-> IF orders[id].items = <<>> THEN "cancel_save" ELSE "restore",
                    op |-> "cancel", id |-> id, items |-> orders[id].items,
                    i |-> 1, loaded |-> orders[id], pre |-> pre]]
            /\ ledger' = [ledger EXCEPT ![id] =
                   [@ EXCEPT !.clean = @ /\ ~ledger[id].begun, !.begun = TRUE]]

\* history: the units the restore of an order line adds to the stock of the
\* stored product: the quantity, for every entry of the size
Given(stored, item) ==
    IF stored.exists
    THEN item.quantity
         * Cardinality({j \in 1..Len(stored.sizes) : stored.sizes[j].size = item.size})
    ELSE 0

CancelRestore(s) ==
    /\ UNCHANGED <<accounts, clock>>
    /\ req[s].pc = "restore"
    /\ UNCHANGED <<carts, users, orders>>
    /\ LET r == req[s]
           item == r.items[r.i]
       IN
       /\ products' = [products EXCEPT ![item.product] = RestoreStock(@, item)]
       /\ ledger' = [Dirty(r.id) EXCEPT ![r.id].given =
                       @ + Given(products[item.product], item)]
       /\ req' = [req EXCEPT ![s] =
              [r EXCEPT !.pc = IF r.i = Len(r.items) THEN "cancel_save" ELSE "restore",
                        !.i = @ + 1]]

----------------------------------------------------------------------------
(* order.save() *)

\* order.save() validation: the status is absent or in the enum
StatusValid(status) == status \in OrderStatuses \cup {Undefined}

\* mutant of SaveOrder: every status but delivered zeroes the order total
SaveOrderRefunding(stored, loaded, status, trackingNumber) ==
    [stored EXCEPT
       !.status = IF status # loaded.status THEN status ELSE @,
       !.total = IF status = "delivered" THEN @ ELSE 0,
       !.trackingNumber = IF trackingNumber # Undefined
                             /\ trackingNumber # loaded.trackingNumber
                          THEN trackingNumber ELSE @,
       !.statusHistory = Append(@, status)]

\* order.save() after order.status = status, if (trackingNumber)
\* order.trackingNumber = trackingNumber and order.statusHistory.push(...):
\* a path is written when the value set differs from the one stored when the
\* order was loaded (a status that was absent and came from the schema
\* default differs from every status set, and not from undefined); a status
\* of undefined is unset; the history entry is pushed onto the stored array
SaveOrder(stored, loaded, status, trackingNumber) ==
    [stored EXCEPT
       !.status = IF status # loaded.status THEN status ELSE @,
       !.trackingNumber = IF trackingNumber # Undefined
                             /\ trackingNumber # loaded.trackingNumber
                          THEN trackingNumber ELSE @,
       !.statusHistory = Append(@, status)]

\* order.status = 'cancelled'; order.statusHistory.push(...); order.save()
CancelSave(s) ==
    /\ UNCHANGED <<accounts, clock>>
    /\ req[s].pc = "cancel_save"
    /\ UNCHANGED <<products, carts, users, ledger>>
    /\ LET r == req[s] IN
       /\ orders' = [orders EXCEPT
              ![r.id] = SaveOrder(@, r.loaded, "cancelled", Undefined)]
       /\ req' = [req EXCEPT ![s] =
              DoneWith("cancel", 200, "Order cancelled successfully", r.pre, <<>>)]

----------------------------------------------------------------------------
(* Admin back-office *)

\* the size lists the admin sends to PUT /admin/inventory/:id; the schema
\* does not keep a size from being listed twice
InventoryInputs ==
    {<<[size |-> 10, stock |-> 1]>>,
     <<[size |-> 10, stock |-> 0], [size |-> 9, stock |-> 1]>>,
     <<[size |-> 9, stock |-> 1], [size |-> 9, stock |-> 1]>>}

\* the status values the admin sends; a missing status is Undefined
StatusInputs == OrderStatuses \cup {Undefined, "returned"}
TrackingInputs == {Undefined, "1Z"}

\* PUT /admin/orders/:id/status: await Order.findById(req.params.id); an
\* unknown order (404) changes nothing
AdminFindOrder(id, status, trackingNumber) ==
    /\ req[Admin] = Idle
    /\ id <= Len(orders)
    /\ req' = [req EXCEPT ![Admin] =
           [pc |-> "order_save", op |-> "status", id |-> id, status |-> status,
            trackingNumber |-> trackingNumber, loaded |-> orders[id]]]
    /\ UNCHANGED <<products, carts, users, accounts, orders, ledger, clock>>

\* PUT /admin/orders/:id/status: await order.save() and the response; a
\* status that fails validation (500) changes nothing
AdminUpdateStatus ==
    /\ req[Admin].pc = "order_save"
    /\ LET r == req[Admin] IN
       IF StatusValid(r.status)
       THEN orders' = [orders EXCEPT
                ![r.id] = SaveOrder(@, r.loaded, r.status, r.trackingNumber)]
       ELSE UNCHANGED orders
    /\ req' = [req EXCEPT ![Admin] = Idle]
    /\ UNCHANGED <<products, carts, users, accounts, ledger, clock>>

\* the save of a document whose sizes array was assigned: versioned, with the
\* version key loaded (if any) in its filter; a deleted document matches no
\* filter
CatalogConflict(stored, loaded) ==
    ~stored.exists \/ VersionConflict(stored, loaded)

\* product.save() after the admin assigned product.sizes (and the product
\* form price and salePrice): the assigned array is written whole, another
\* path is written when its value differs from the loaded one, a reviews
\* path defaulted on load is written as the empty list, the version key is
\* incremented
SaveCatalog(stored, loaded, modified) ==
    [stored EXCEPT
       !.price = IF modified.price # loaded.price THEN modified.price ELSE @,
       !.salePrice = IF modified.salePrice # loaded.salePrice
                     THEN modified.salePrice ELSE @,
       !.sizes = modified.sizes,
       !.totalStock = IF modified.totalStock # loaded.totalStock
                      THEN modified.totalStock ELSE @,
       !.reviews = IF DefaultSet(loaded) THEN << <<>> >> ELSE @,
       !.v = <<Version(stored) + 1>>]

\* await Product.findById(req.params.id) of PUT /admin/inventory/:id and
\* product.sizes = sizes; an unknown product (404) changes nothing
AdminFindInventory(p, sizes) ==
    /\ req[Admin] = Idle
    /\ products[p].exists
    /\ Version(products[p]) < MaxVersion
    /\ req' = [req EXCEPT ![Admin] =
           [pc |-> "product_save", op |-> "inventory", p |-> p,
            loaded |-> products[p],
            modified |-> [products[p] EXCEPT !.sizes = sizes,
                                             !.totalStock = SumStock(sizes)]]]
    /\ UNCHANGED <<products, carts, users, accounts, orders, ledger, clock>>

\* await Product.findById(req.params.id) of POST /admin/products/:id and the
\* assignment of the form's price, sale price and size list
AdminFindProduct(p, price, salePrice, sizes) ==
    /\ req[Admin] = Idle
    /\ products[p].exists
    /\ Version(products[p]) < MaxVersion
    /\ req' = [req EXCEPT ![Admin] =
           [pc |-> "product_save", op |-> "product", p |-> p,
            loaded |-> products[p],
            modified |-> [products[p] EXCEPT
                            !.price = price,
                            !.salePrice = IF salePrice = <<>> THEN <<>>
                                          ELSE <<salePrice[1]>>,
                            !.sizes = sizes,
                            !.totalStock = SumStock(sizes)]]]
    /\ UNCHANGED <<products, carts, users, accounts, orders, ledger, clock>>

\* await product.save() of the two handlers, the pre-save hook having
\* recomputed totalStock, and the response; validation errors, version
\* errors and a deleted document end in the catch
AdminSaveProduct ==
    /\ req[Admin].pc = "product_save"
    /\ LET r == req[Admin]
           stored == products[r.p]
       IN
       IF ~ProductValid(r.modified) \/ CatalogConflict(stored, r.loaded)
       THEN UNCHANGED <<products, ledger>>
       ELSE /\ products' = [products EXCEPT
                   ![r.p] = SaveCatalog(stored, r.loaded, r.modified)]
            /\ ledger' = Dirty(0)
    /\ req' = [req EXCEPT ![Admin] = Idle]
    /\ UNCHANGED <<carts, users, accounts, orders, clock>>

\* PUT /admin/inventory/:id, from the request to the response
AdminUpdateInventory ==
    /\ req[Admin].pc = "product_save"
    /\ req[Admin].op = "inventory"
    /\ AdminSaveProduct

\* POST /admin/products/:id, from the save to the response
AdminUpdateProduct ==
    /\ req[Admin].pc = "product_save"
    /\ req[Admin].op = "product"
    /\ AdminSaveProduct

\* DELETE /admin/products/:id: Product.findByIdAndDelete
AdminDeleteProduct(p) ==
    /\ products[p].exists
    /\ products' = [products EXCEPT ![p] = Deleted]
    /\ ledger' = Dirty(0)
    /\ UNCHANGED <<carts, users, accounts, orders, req, clock>>

\* the prices the admin sends with the product form; the sale price field
\* is empty (<<>>) or holds a number
PriceInputs == {400000, 499900}
SalePriceInputs == {<<>>, <<0>>, <<199900>>, <<299900>>}

----------------------------------------------------------------------------
(* POST /api/products/:id/review *)

\* parseInt(rating) of the ratings a client may send: nothing or a text
\* that is no number (NaN, <<>>), and numbers below, within and above the
\* range of the schema
RatingInputs == {<<>>, <<0>>, <<3>>, <<6>>}

\* the validators of a review: rating is a number (required), min 1, max 5
ReviewValid(rating) == rating # <<>> /\ rating[1] >= 1 /\ rating[1] <= 5

\* product.reviews.find(r => r.user.toString() === req.session.user.id)
Reviewed(product, user) ==
    \E k \in 1..Len(Reviews(product)) : Reviews(product)[k].user = user

\* the session check, await Product.findById(req.params.id) and the check
\* for a review of the user
FindReview(s, p, rating) ==
    /\ req[s] = Idle
    /\ UNCHANGED <<products, carts, users, accounts, orders, ledger, clock>>
    /\ IF users[s] = NoUser
       THEN req' = [req EXCEPT ![s] = Done("review", 401, "Please login to add a review")]
       ELSE IF ~products[p].exists
       THEN req' = [req EXCEPT ![s] = Done("review", 404, "Product not found")]
       ELSE IF Reviewed(products[p], users[s])
       THEN req' = [req EXCEPT ![s] =
                Done("review", 400, "You have already reviewed this product")]
       ELSE req' = [req EXCEPT ![s] =
                [pc |-> "review_save", op |-> "review", p |-> p,
                 rating |-> rating, loaded |-> products[p]]]

\* product.save() after product.reviews.push(...): the review is pushed onto
\* the stored array and the version key incremented, with no version in the
\* filter; the pre-save hook has recomputed totalStock from the loaded
\* sizes, and it is written when it differs from the loaded one.  The
\* rating average and count of the product are not part of the model
SaveReview(stored, loaded, user, rating) ==
    [stored EXCEPT
       !.reviews = <<Append(Reviews(stored), [user |-> user, rating |-> rating[1]])>>,
       !.totalStock = IF SumStock(loaded.sizes) # loaded.totalStock
                      THEN SumStock(loaded.sizes) ELSE @,
       !.v = <<Version(stored) + 1>>]

\* await product.save() and the response; a validation error, of the pushed
\* review or of the product as loaded, or a deleted document ends in the
\* catch (500) with nothing stored
AddReview(s) ==
    /\ req[s].pc = "review_save"
    /\ UNCHANGED <<carts, users, accounts, orders, clock>>
    /\ LET r == req[s] IN
       IF ~ReviewValid(r.rating) \/ ~ProductValid(r.loaded) \/ ~products[r.p].exists
       THEN /\ UNCHANGED <<products, ledger>>
            /\ req' = [req EXCEPT ![s] = Done("review", 500, "Failed to add review")]
       ELSE /\ products' = [products EXCEPT
                   ![r.p] = SaveReview(@, r.loaded, users[s], r.rating)]
            /\ ledger' = Dirty(0)
            /\ req' = [req EXCEPT ![s] = Done("review", 200, "Review added successfully")]

----------------------------------------------------------------------------
(* Register, login and logout *)

Users == {"u1", "u2"}
\* the users a registration form may name: a registered one and a new one
RegisterInputs == {"u1", "u3"}

\* POST /auth/register with a form that passes registerValidation, up to
\* the creation: await User.findOne({ email }); an email already registered
\* renders the form again with 'Email already registered'
Register(s, u) ==
    /\ req[s] = Idle
    /\ UNCHANGED <<products, carts, users, accounts, orders, clock, ledger>>
    /\ IF u \in accounts
       THEN req' = [req EXCEPT ![s] = Done("register", 200, "Email already registered")]
       ELSE req' = [req EXCEPT ![s] =
                [pc |-> "register_create", op |-> "register", u |-> u]]

\* await User.create({...}): the new user is stored and becomes the
\* session's user, and the response redirects to '/'; when the email has
\* been registered since the findOne, the unique index on email rejects the
\* insert and the catch renders the form again.  The session keeps its cart
CreateUser(s) ==
    /\ req[s].pc = "register_create"
    /\ UNCHANGED <<products, carts, orders, clock, ledger>>
    /\ LET u == req[s].u IN
       IF u \in accounts
       THEN /\ UNCHANGED <<accounts, users>>
            /\ req' = [req EXCEPT ![s] =
                   Done("register", 200, "Registration failed. Please try again.")]
       ELSE /\ accounts' = accounts \cup {u}
            /\ users' = [users EXCEPT ![s] = u]
            /\ req' = [req EXCEPT ![s] = Done("register", 302, "/")]

\* POST /auth/login with the credentials of a registered user:
\* req.session.user = {...}, whoever was logged in; the session keeps its cart
Login(s, u) ==
    /\ u \in accounts
    /\ users' = [users EXCEPT ![s] = u]
    /\ UNCHANGED <<products, carts, accounts, orders, req, ledger, clock>>

\* GET /auth/logout: req.session.destroy(), whether a user is logged in or not
Logout(s) ==
    /\ users' = [users EXCEPT ![s] = NoUser]
    /\ carts' = [carts EXCEPT ![s] = NoCart]
    /\ UNCHANGED <<products, accounts, orders, req, ledger, clock>>

----------------------------------------------------------------------------
(* Spec: one shopper using the whole cart interface and checkout, the       *)
(* server handling one request at a time                                    *)

Shopper == "s1"

CheckoutStep(s) ==
    \/ CheckoutFind(s)
    \/ CheckoutSave(s)
    \/ CheckoutCreate(s)
    \/ CheckoutCount(s)
    \/ CheckoutInsert(s)

Next ==
    \/ \E p \in Products, z \in SizeInputs, c \in ColorInputs, q \in QtyInputs :
           AllIdle /\ AddToCart(Shopper, p, z, c, q)
    \/ \E p \in Products, z \in SizeInputs, q \in QtyInputs :
           AllIdle /\ UpdateCart(Shopper, p, z, q)
    \/ \E p \in Products, z \in SizeInputs : AllIdle /\ RemoveFromCart(Shopper, p, z)
    \/ AllIdle /\ ClearCart(Shopper)
    \/ AllIdle /\ GetCart(Shopper)
    \/ \E m \in ShippingInputs, pm \in PaymentInputs :
           AllIdle /\ StartCheckout(Shopper, m, pm)
    \/ CheckoutStep(Shopper)
    \/ Respond(Shopper)

Spec == Init /\ [][Next]_vars

----------------------------------------------------------------------------
(* OrderSpec: the life of an order.  The shopper puts product p1 in the     *)
(* cart and checks out; either user asks to cancel; the admin updates the   *)
(* order status.  The requests of the three clients are interleaved at      *)
(* every await.                                                             *)

OrderNext ==
    \/ AddToCart(Shopper, "p1", "9", "red", 1)
    \/ orders = <<>> /\ StartCheckout(Shopper, "standard", "card")
    \/ CheckoutStep(Shopper)
    \/ \E s \in Sessions, id \in OrderIds : StartCancel(s, id)
    \/ \E s \in Sessions : CancelRestore(s)
    \/ \E s \in Sessions : CancelSave(s)
    \/ \E s \in Sessions : Respond(s)
    \/ \E id \in OrderIds, st \in OrderStatuses :
           /\ id <= Len(orders)
           /\ Len(orders[id].statusHistory) < MaxHistory
           /\ AdminFindOrder(id, st, Undefined)
    \/ AdminUpdateStatus

OrderSpec == Init /\ [][OrderNext]_vars

----------------------------------------------------------------------------
(* StockSpec: the stock of product p1.  The shopper puts sizes 9 and 11 in  *)
(* the cart, checks out and asks to cancel; the admin edits the inventory   *)
(* of p1 and deletes it.  The requests of the two are interleaved at every  *)
(* await.                                                                   *)

StockNext ==
    \/ \E z \in {"9", "11"} : AddToCart(Shopper, "p1", z, "red", 1)
    \/ orders = <<>> /\ StartCheckout(Shopper, "standard", "card")
    \/ CheckoutStep(Shopper)
    \/ \E id \in OrderIds : StartCancel(Shopper, id)
    \/ CancelRestore(Shopper)
    \/ CancelSave(Shopper)
    \/ Respond(Shopper)
    \/ \E sizes \in InventoryInputs : AdminFindInventory("p1", sizes)
    \/ AdminUpdateInventory
    \/ AdminDeleteProduct("p1")

StockSpec == Init /\ [][StockNext]_vars

----------------------------------------------------------------------------
(* RaceSpec: two sessions buying the same product and size, their requests  *)
(* interleaved at every await                                               *)

RaceNext ==
    \/ \E s \in Sessions, q \in {1, 2} : AddToCart(s, "p1", "9", "red", q)
    \/ \E s \in Sessions : StartCheckout(s, "standard", "card")
    \/ \E s \in Sessions : CheckoutStep(s)
    \/ \E s \in Sessions : Respond(s)
    \/ Tick

RaceSpec == Init /\ [][RaceNext]_vars

----------------------------------------------------------------------------
(* MixSpec: checkouts and cancels of two sessions interleaved at every      *)
(* await.  The sessions fill their carts before the first order is placed;  *)
(* in that time the second session may log out and log in again, as its     *)
(* own user or as the user of the first session, so that two sessions of    *)
(* one user can cancel the same order at the same time                      *)

Twin == "s2"

Shopping == AllIdle /\ orders = <<>>

MixNext ==
    \/ Shopping /\ Logout(Twin)
    \/ \E u \in Users : Shopping /\ Login(Twin, u)
    \/ \E s \in Sessions, q \in {1, 2} : Shopping /\ AddToCart(s, "p1", "9", "red", q)
    \/ \E s \in Sessions : StartCheckout(s, "standard", "card")
    \/ \E s \in Sessions : CheckoutStep(s)
    \/ \E s \in Sessions, id \in 1..Len(orders) : StartCancel(s, id)
    \/ \E s \in Sessions : CancelRestore(s)
    \/ \E s \in Sessions : CancelSave(s)
    \/ \E s \in Sessions : Respond(s)

MixSpec == Init /\ [][MixNext]_vars

----------------------------------------------------------------------------
(* LifeSpec: the whole life of orders.  The shopper buys product p1 and     *)
(* asks to cancel; the admin updates status and tracking number, as often   *)
(* as the history bound allows.  The shopper's and the admin's requests are *)
(* interleaved at every await.                                              *)

LifeStatusInputs == {"pending", "shipped", "delivered", "returned", Undefined}

LifeNext ==
    \/ AddToCart(Shopper, "p1", "9", "red", 1)
    \/ orders = <<>> /\ StartCheckout(Shopper, "standard", "card")
    \/ CheckoutStep(Shopper)
    \/ \E id \in OrderIds : StartCancel(Shopper, id)
    \/ CancelRestore(Shopper)
    \/ CancelSave(Shopper)
    \/ Respond(Shopper)
    \/ \E id \in OrderIds, st \in LifeStatusInputs, tn \in TrackingInputs :
           /\ id <= Len(orders)
           /\ Len(orders[id].statusHistory) < MaxEntries
           /\ AdminFindOrder(id, st, tn)
    \/ AdminUpdateStatus

LifeSpec == Init /\ [][LifeNext]_vars

----------------------------------------------------------------------------
(* SerialSpec: the requests of LifeSpec processed one at a time: a request  *)
(* starts when no other is in flight                                        *)

SerialNext ==
    \/ AllIdle /\ AddToCart(Shopper, "p1", "9", "red", 1)
    \/ AllIdle /\ StartCheckout(Shopper, "standard", "card")
    \/ CheckoutStep(Shopper)
    \/ \E id \in OrderIds : AllIdle /\ StartCancel(Shopper, id)
    \/ CancelRestore(Shopper)
    \/ CancelSave(Shopper)
    \/ Respond(Shopper)
    \/ \E id \in OrderIds, st \in LifeStatusInputs, tn \in TrackingInputs :
           /\ AllIdle
           /\ id <= Len(orders)
           /\ Len(orders[id].statusHistory) < MaxEntries
           /\ AdminFindOrder(id, st, tn)
    \/ AdminUpdateStatus

SerialSpec == Init /\ [][SerialNext]_vars

----------------------------------------------------------------------------
(* GuestSpec: the shopper logs out and in, registers, fills the cart,       *)
(* checks out, asks to cancel and reviews the product, with and without a   *)
(* user in the session, one request of the shopper's browser at a time;     *)
(* the other session registers meanwhile, its requests interleaved with     *)
(* the shopper's at every await                                             *)

GuestNext ==
    \/ req[Shopper] = Idle /\ Logout(Shopper)
    \/ \E u \in Users : req[Shopper] = Idle /\ Login(Shopper, u)
    \/ \E s \in Sessions, u \in RegisterInputs : Register(s, u)
    \/ \E s \in Sessions : CreateUser(s)
    \/ \E rating \in RatingInputs : FindReview(Shopper, "p1", rating)
    \/ AddReview(Shopper)
    \/ AddToCart(Shopper, "p1", "9", "red", 1)
    \/ orders = <<>> /\ StartCheckout(Shopper, "standard", "card")
    \/ CheckoutStep(Shopper)
    \/ \E id \in OrderIds : StartCancel(Shopper, id)
    \/ CancelRestore(Shopper)
    \/ CancelSave(Shopper)
    \/ \E s \in Sessions : Respond(s)

GuestSpec == Init /\ [][GuestNext]_vars

----------------------------------------------------------------------------
(* PriceSpec: the admin changes the prices of product p2 while the shopper  *)
(* fills the cart and checks out, their requests interleaved at every       *)
(* await; the product form resubmits the size list it was loaded with       *)

PriceNext ==
    \/ \E q \in {1, 2} : AddToCart(Shopper, "p1", "9", "red", q)
    \/ \E c \in ColorInputs : AddToCart(Shopper, "p2", "10", c, 1)
    \/ \E price \in PriceInputs, salePrice \in SalePriceInputs :
           AdminFindProduct("p2", price, salePrice, products["p2"].sizes)
    \/ AdminUpdateProduct
    \/ StartCheckout(Shopper, "standard", "card")
    \/ CheckoutStep(Shopper)
    \/ Respond(Shopper)

PriceSpec == Init /\ [][PriceNext]_vars

----------------------------------------------------------------------------
(* ShipSpec: checkouts with every shipping method                           *)

MethodInputs == {"standard", "express", "overnight", "pickup", Undefined}

ShipNext ==
    \/ \E q \in {1, 2} : AllIdle /\ AddToCart(Shopper, "p1", "9", "red", q)
    \/ AllIdle /\ AddToCart(Shopper, "p2", "10", "red", 1)
    \/ \E m \in MethodInputs : AllIdle /\ StartCheckout(Shopper, m, "card")
    \/ CheckoutStep(Shopper)
    \/ Respond(Shopper)

ShipSpec == Init /\ [][ShipNext]_vars

----------------------------------------------------------------------------
(* Properties *)

\* the stock of a size on a product document (0 when the size is not listed)
StockOf(doc, size) ==
    LET k == SizeIndex(doc.sizes, size) IN IF k = 0 THEN 0 ELSE doc.sizes[k].stock

\* the quantity the cart lines hold of a product and size
RECURSIVE LineQty(_, _, _)
LineQty(items, p, size) ==
    IF items = <<>> THEN 0
    ELSE (IF items[1].productId = p /\ items[1].size = size THEN items[1].quantity ELSE 0)
         + LineQty(Tail(items), p, size)

\* the quantity the cart lines hold of a product
RECURSIVE ProductQty(_, _)
ProductQty(items, p) ==
    IF items = <<>> THEN 0
    ELSE (IF items[1].productId = p THEN items[1].quantity ELSE 0)
         + ProductQty(Tail(items), p)

Answered(s, op) == req[s].pc = "done" /\ req[s].op = op

\* C1: the stored totals of every session cart satisfy
\* total = subtotal + shipping + tax and subtotal = sum of price x quantity
\* over its lines, after every cart operation and every checkout.
C1_TotalsConsistent ==
    \A s \in Sessions :
        LET cart == carts[s].cart IN
        /\ cart.total = cart.subtotal + cart.shipping + cart.tax
        /\ cart.subtotal = SumItems(cart.items)

\* a cart of two lines above the free-shipping threshold, filled after an
\* earlier checkout
C1_Witness ==
    /\ Len(orders) >= 1
    /\ Len(carts[Shopper].cart.items) = 2
    /\ carts[Shopper].cart.subtotal >= FreeShippingThreshold
    /\ carts[Shopper].cart.tax > 0

\* C2: after a successful checkout, for every cart line the stock of its
\* product/size is lower by the quantity the cart held of that product/size,
\* the product's sold-count is higher by the quantity the cart held of the
\* product, exactly one order was added, and the cart is empty with zero totals.
C2_CheckoutEffect ==
    \A s \in Sessions :
        (Answered(s, "checkout") /\ req[s].code = 201) =>
            LET pre == req[s].pre
                lines == pre.cart.cart.items
            IN
            /\ \A k \in 1..Len(lines) :
                   LET p == lines[k].productId
                       size == lines[k].size
                   IN
                   /\ products[p].exists
                   /\ StockOf(products[p], size)
                        = StockOf(pre.products[p], size) - LineQty(lines, p, size)
                   /\ products[p].soldCount
                        = pre.products[p].soldCount + ProductQty(lines, p)
            /\ Len(orders) = Len(pre.orders) + 1
            /\ SubSeq(orders, 1, Len(pre.orders)) = pre.orders
            /\ carts[s] = HasCart(EmptyCart)

\* a successful checkout of a cart with two lines of the same product and size
C2_Witness ==
    /\ Answered(Shopper, "checkout")
    /\ req[Shopper].code = 201
    /\ Len(req[Shopper].pre.cart.cart.items) = 2
    /\ LineQty(req[Shopper].pre.cart.cart.items, "p1", 9) = 2

\* C3: a checkout request that fails leaves the stock and sold-count of every
\* product as they were before the request.
C3_AllOrNothing ==
    \A s \in Sessions :
        (Answered(s, "checkout") /\ req[s].code # 201) =>
            StockView(products) = StockView(req[s].pre.products)

\* the color a request's line is stored under
StoredColor(color) == IF color = Undefined THEN "Default" ELSE color

\* the add request must be refused: the size is not on the product, or has
\* less stock than asked, or the cart's line of this product/size/color plus
\* the asked quantity exceeds the stock
MustRefuseAdd(s, p, z, c, q) ==
    /\ products[p].exists
    /\ LET size == ParseFloat(z)
           k == SizeIndex(products[p].sizes, size)
           items == carts[s].cart.items
       IN
       \/ k = 0
       \/ products[p].sizes[k].stock < q
       \/ \E j \in 1..Len(items) :
              /\ items[j].productId = p
              /\ items[j].size = size
              /\ items[j].color = StoredColor(c)
              /\ items[j].quantity + q > products[p].sizes[k].stock

\* C7: an add-to-cart request fails and leaves the cart unchanged when the
\* size does not exist on the product, when the quantity exceeds the size's
\* stock, or when the line exists and its quantity plus the requested
\* quantity exceeds the size's stock.
C7_AddRefused ==
    [][ \A s \in Sessions, p \in Products, z \in SizeInputs, c \in ColorInputs,
           q \in QtyInputs :
           (AddToCart(s, p, z, c, q) /\ MustRefuseAdd(s, p, z, c, q))
               => (req'[s].code # 200 /\ carts'[s] = carts[s]) ]_vars

\* C8: the cart never holds two lines for the same product/size/color.
C8_NoDuplicateLine ==
    \A s \in Sessions :
        LET items == carts[s].cart.items IN
        \A j, k \in 1..Len(items) :
            (/\ items[j].productId = items[k].productId
             /\ items[j].size = items[k].size
             /\ items[j].color = items[k].color) => j = k

\* C9: a checkout request of a session with no cart or an empty cart fails,
\* creates no order and changes no product.
C9_EmptyCartRefused ==
    \A s \in Sessions :
        (/\ Answered(s, "checkout")
         /\ (~req[s].pre.cart.present \/ Len(req[s].pre.cart.cart.items) = 0)) =>
            /\ req[s].code = 400
            /\ orders = req[s].pre.orders
            /\ products = req[s].pre.products

\* the checkout of a cart that was emptied by removing its last line is refused
C9_Witness ==
    /\ Answered(Shopper, "checkout")
    /\ req[Shopper].code = 400
    /\ req[Shopper].pre.cart.present
    /\ req[Shopper].pre.cart.cart.items = <<>>
    /\ req[Shopper].pre.cart.cart.total = ShippingFee

\* C4: when a cancel request of the owner succeeds on an order that was
\* confirmed, and nothing but the order's checkout and this cancellation has
\* written the products, the stock and sold-count of every product equal
\* their values before the checkout; the order is cancelled.
C4_CancelRestores ==
    \A s \in Sessions :
        (Answered(s, "cancel") /\ req[s].code = 200) =>
            LET id == req[s].pre.id IN
            /\ orders[id].status = "cancelled"
            /\ (ledger[id].clean /\ req[s].pre.orders[id].status = "confirmed") =>
                   StockView(products) = StockView(ledger[id].before)

\* C5: a cancel request of the owner for an order whose status, when the
\* handler reads it, is neither pending nor confirmed is answered 400 in
\* that step, and the step changes no product and no order.
C5_CancelRefused ==
    [][ \A s \in Sessions, id \in OrderIds :
          (/\ req[s] = Idle /\ req'[s] # Idle
           /\ req'[s].op = "cancel"
           /\ req'[s].pre.id = id
           /\ users[s] # NoUser
           /\ id <= Len(orders)
           /\ orders[id].user = users[s]
           /\ StatusOf(orders[id]) \notin {"pending", "confirmed"}) =>
              /\ req'[s].pc = "done"
              /\ req'[s].code = 400
              /\ products' = products
              /\ orders' = orders ]_vars

\* the owner's cancel of a shipped order is refused
C5_Witness ==
    \E s \in Sessions :
        /\ Answered(s, "cancel")
        /\ req[s].code = 400
        /\ req[s].pre.orders[req[s].pre.id].status = "shipped"

\* C6: totalStock of every product equals the sum of the stock of its sizes.
C6_TotalStock ==
    \A p \in Products :
        products[p].exists => products[p].totalStock = SumStock(products[p].sizes)

\* request b had passed the stock check and not yet saved when request a
\* passed it
ReadBeside(a, b) ==
    \E e \in req[a].seen[1].beside : e.session = b /\ e.pre = req[b].pre

\* two checkouts that have both answered 201 and had both passed the stock
\* check of the same product/size before either saved
RacedPair(a, b) ==
    /\ a # b
    /\ Answered(a, "checkout") /\ req[a].code = 201
    /\ Answered(b, "checkout") /\ req[b].code = 201
    /\ ReadBeside(a, b)

\* C10: when two concurrent checkouts of the same product/size both pass the
\* stock check before either writes, both orders are created and the stock
\* left is what one of them alone would have left: the other's units are sold
\* without being taken from the stock.
C10_LostUpdate ==
    \A a, b \in Sessions :
        RacedPair(a, b) =>
            LET qa == req[a].pre.cart.cart.items[1].quantity
                qb == req[b].pre.cart.cart.items[1].quantity
            IN
            /\ Len(orders) >= Len(req[b].pre.orders) + 2
            /\ StockOf(products["p1"], 9)
                 \in {req[a].seen[1].stock - qa, req[b].seen[1].stock - qb}

\* both orders exist although their quantities exceed the stock both checked
C10_Witness ==
    \E a, b \in Sessions :
        /\ RacedPair(a, b)
        /\ req[a].seen[1].stock = req[b].seen[1].stock
        /\ \E j, k \in 1..Len(orders) : j # k /\ orders[j].user # orders[k].user
        /\ req[a].pre.cart.cart.items[1].quantity
             + req[b].pre.cart.cart.items[1].quantity > req[a].seen[1].stock

\* what an order holds from its creation on
Frozen(order) ==
    [items |-> order.items, subtotal |-> order.subtotal, tax |-> order.tax,
     shipping |-> order.shipping.cost, total |-> order.total]

\* C11: no step changes the items, subtotal, tax, shipping cost or total of
\* an order that exists; orders are never removed.
C11_OrderFrozen ==
    [][ \A id \in 1..Len(orders) :
            /\ id <= Len(orders')
            /\ Frozen(orders'[id]) = Frozen(orders[id]) ]_vars

\* an order that got a tracking number from the admin and was then cancelled
\* by the customer
C11_Witness ==
    \E id \in 1..Len(orders) :
        /\ orders[id].status = "cancelled"
        /\ orders[id].trackingNumber = "1Z"
        /\ Len(orders[id].statusHistory) = 3
        /\ orders[id].total > 0

\* C12: every line of every session cart has quantity >= 1.
C12_QuantityPositive ==
    \A s \in Sessions :
        \A k \in 1..Len(carts[s].cart.items) : carts[s].cart.items[k].quantity >= 1

\* the lines of a cart that an update or remove request names
Named(items, p, z) ==
    {k \in 1..Len(items) : items[k].productId = p /\ items[k].size = ParseFloat(z)}

\* the first of them
FirstNamed(items, p, z) ==
    CHOOSE k \in Named(items, p, z) : \A j \in Named(items, p, z) : k <= j

\* items without its k-th line
Without(items, after, k) ==
    /\ Len(after) = Len(items) - 1
    /\ \A j \in 1..Len(after) : after[j] = IF j < k THEN items[j] ELSE items[j + 1]

\* the totals of a cart are those of its lines
TotalsOf(cart) ==
    /\ cart.subtotal = SumItems(cart.items)
    /\ cart.tax * 100 = cart.subtotal * 8
    /\ cart.total = cart.subtotal + cart.shipping + cart.tax

\* C13: an update request with quantity q on an existing line removes the
\* line when q <= 0, fails and leaves the cart unchanged when q exceeds the
\* stock the catalog holds for the product/size at that moment, and otherwise
\* makes the line's quantity exactly q.
C13_UpdateSemantics ==
    [][ \A s \in Sessions, p \in Products, z \in SizeInputs, q \in QtyInputs :
          (/\ req[s] = Idle /\ req'[s].pc = "done" /\ req'[s].op = "update"
           /\ Named(carts[s].cart.items, p, z) # {}
           /\ UpdateCart(s, p, z, q)
           /\ products[p].exists
           /\ SizeIndex(products[p].sizes, ParseFloat(z)) # 0) =>
              LET items == carts[s].cart.items
                  k == FirstNamed(items, p, z)
              IN
              IF q <= 0
              THEN Without(items, carts'[s].cart.items, k) /\ req'[s].code = 200
              ELSE IF q > StockOf(products[p], ParseFloat(z))
              THEN carts'[s] = carts[s] /\ req'[s].code = 400
              ELSE /\ req'[s].code = 200
                   /\ Len(carts'[s].cart.items) = Len(items)
                   /\ \A j \in 1..Len(items) :
                          carts'[s].cart.items[j] =
                              IF j = k THEN [items[j] EXCEPT !.quantity = q]
                              ELSE items[j] ]_vars

\* an update refused for a quantity the line's stock snapshot would allow:
\* the stock fell to 0 after the line was added with a snapshot of 2
C13_Witness ==
    /\ Answered(Shopper, "update")
    /\ req[Shopper].code = 400
    /\ StockOf(products["p1"], 9) = 0
    /\ \E k \in 1..Len(carts[Shopper].cart.items) :
           /\ carts[Shopper].cart.items[k].productId = "p1"
           /\ carts[Shopper].cart.items[k].maxStock = 2

\* C14: a remove request naming no line of the cart answers not-found and
\* leaves items and totals unchanged; a remove request naming a line deletes
\* the line, whatever the stock, and recomputes the totals.
C14_RemoveSemantics ==
    [][ \A s \in Sessions, p \in Products, z \in SizeInputs :
          (/\ req[s] = Idle /\ req'[s].pc = "done" /\ req'[s].op = "remove"
           /\ RemoveFromCart(s, p, z)) =>
              LET items == carts[s].cart.items IN
              IF Named(items, p, z) = {}
              THEN req'[s].code = 404 /\ carts'[s].cart = carts[s].cart
              ELSE /\ req'[s].code = 200
                   /\ Without(items, carts'[s].cart.items, FirstNamed(items, p, z))
                   /\ TotalsOf(carts'[s].cart) ]_vars

\* the first of two lines was removed while its product/size has no stock
C14_Witness ==
    /\ Answered(Shopper, "remove")
    /\ req[Shopper].code = 200
    /\ Len(carts[Shopper].cart.items) = 1
    /\ carts[Shopper].cart.items[1].color = "Default"
    /\ carts[Shopper].cart.subtotal > 0
    /\ StockOf(products["p1"], 9) = 0

\* C15: the price of a cart line is the product's effective price when the
\* line was added and no later step changes it: a step that changes a
\* product's price or sale price changes no cart, a step that keeps a line
\* keeps its price, and the order line created at checkout carries the price
\* of the cart line.
C15_PriceSnapshot ==
    [][ /\ (\E p \in Products : products[p].exists /\ products'[p].exists
               /\ effectivePrice(products'[p]) # effectivePrice(products[p]))
           => carts' = carts
        /\ \A s \in Sessions :
             LET items == carts[s].cart.items
                 after == carts'[s].cart.items
             IN
             /\ \A k \in 1..Len(items) :
                    k <= Len(after) => after[k].price = items[k].price
             /\ Len(after) = Len(items) + 1 =>
                    after[Len(after)].price
                        = effectivePrice(products[after[Len(after)].productId])
             /\ (Len(orders') = Len(orders) + 1 /\ req[s].pc = "insert") =>
                    LET lines == req[s].pre.cart.cart.items
                        order == orders'[Len(orders')]
                    IN
                    /\ Len(order.items) = Len(lines)
                    /\ \A k \in 1..Len(lines) : order.items[k].price = lines[k].price
                    /\ order.subtotal = SumItems(lines) ]_vars

\* an order line of product p2 bought at 29.99 after the admin changed the
\* product's prices
C15_Witness ==
    /\ Answered(Shopper, "checkout")
    /\ req[Shopper].code = 201
    /\ effectivePrice(products["p2"]) # 299900
    /\ effectivePrice(req[Shopper].pre.products["p2"]) # 299900
    /\ \E k \in 1..Len(orders[Len(orders)].items) :
           /\ orders[Len(orders)].items[k].product = "p2"
           /\ orders[Len(orders)].items[k].price = 299900

\* C16: no two orders have the same order number.
C16_UniqueOrderNumber ==
    \A j, k \in 1..Len(orders) :
        orders[j].orderNumber = orders[k].orderNumber => j = k

\* two checkouts started from the same orders: one created its order, the
\* other, having counted the same orders, was refused by the unique index
C16_Witness ==
    \E a, b \in Sessions :
        /\ Answered(a, "checkout") /\ req[a].code = 201
        /\ Answered(b, "checkout") /\ req[b].code = 500
        /\ req[a].pre.orders = req[b].pre.orders
        /\ Len(orders) = Len(req[b].pre.orders) + 1

\* C17: for every order the shipping cost is 19.99 for express, 29.99 for
\* overnight and otherwise 0 when the subtotal is at least 100 and 9.99 when
\* below; the tax is 8% of the subtotal; the total is their sum with the
\* subtotal.
C17_OrderAmounts ==
    \A id \in 1..Len(orders) :
        LET order == orders[id] IN
        /\ order.shipping.cost =
               CASE order.shipping.method = "express" -> 199900
                 [] order.shipping.method = "overnight" -> 299900
                 [] OTHER -> IF order.subtotal >= 1000000 THEN 0 ELSE 99900
        /\ order.tax * 100 = order.subtotal * 8
        /\ order.total = order.subtotal + order.shipping.cost + order.tax

\* subtotal 120.00 with standard shipping: shipping 0, tax 9.60, total 129.60;
\* and an order with a method that is none of the three
C17_Witness ==
    /\ \E id \in 1..Len(orders) :
           /\ orders[id].subtotal = 1200000
           /\ orders[id].shipping = [method |-> "standard", cost |-> 0]
           /\ orders[id].tax = 96000
           /\ orders[id].total = 1296000
    /\ \E id \in 1..Len(orders) :
           /\ orders[id].shipping = [method |-> "pickup", cost |-> 99900]

\* C18: a checkout or cancel request of a session without a user is answered
\* 401 with a message, creates no order and changes no product, no order and
\* not the session cart.
C18_GuestRefused ==
    \A s \in Sessions :
        (/\ req[s].pc = "done"
         /\ req[s].op \in {"checkout", "cancel"}
         /\ users[s] = NoUser) =>
            /\ req[s].code = 401
            /\ products = req[s].pre.products
            /\ orders = req[s].pre.orders
            /\ carts[s] = req[s].pre.cart

\* C19: the last entry of an order's status history is the order's status.
C19_HistoryTracksStatus ==
    \A id \in 1..Len(orders) :
        LET history == orders[id].statusHistory IN
        /\ Len(history) >= 1
        /\ history[Len(history)] = StatusOf(orders[id])

TerminalStatuses == {"delivered", "cancelled", "refunded"}

\* C20: no step changes the status of an order that is delivered, cancelled
\* or refunded.
C20_TerminalStatus ==
    [][ \A id \in 1..Len(orders) :
            StatusOf(orders[id]) \in TerminalStatuses =>
                StatusOf(orders'[id]) = StatusOf(orders[id]) ]_vars

----------------------------------------------------------------------------
(* RetrySpec: one shopper who sends requests one at a time and may send any *)
(* of them again.  The requests that are sent again have one body each:     *)
(* update and remove name product p1 in size 9, the checkout is standard    *)
(* shipping by card, the cancel names order 1.  The cart is edited only     *)
(* while no checkout has written anything, so that a checkout that starts   *)
(* after one has written is a repetition of it on the same cart.  Every    *)
(* add names a color and a quantity of 1, so the lines of the cart differ  *)
(* in product, size or color and have a quantity of at least 1              *)

\* no checkout has written a product or an order yet
Fresh ==
    /\ orders = <<>>
    /\ \A p \in Products : products[p].exists /\ products[p].soldCount = 0

RetryNext ==
    \/ \E p \in Products, z \in {"9", "10"}, c \in {"red", "blue"} :
           AllIdle /\ Fresh /\ AddToCart(Shopper, p, z, c, 1)
    \/ AllIdle /\ Fresh /\ UpdateCart(Shopper, "p1", "9", 0)
    \/ AllIdle /\ Fresh /\ RemoveFromCart(Shopper, "p1", "9")
    \/ AllIdle /\ Fresh /\ ClearCart(Shopper)
    \/ AllIdle /\ StartCheckout(Shopper, "standard", "card")
    \/ CheckoutStep(Shopper)
    \/ AllIdle /\ orders # <<>> /\ StartCancel(Shopper, 1)
    \/ CancelRestore(Shopper)
    \/ CancelSave(Shopper)
    \/ Respond(Shopper)

RetrySpec == Init /\ [][RetryNext]_vars

\* sent again, the request changes the cart
RemoveAgainChanges == ENABLED (RemoveFromCart(Shopper, "p1", "9") /\ carts' # carts)
UpdateAgainChanges == ENABLED (UpdateCart(Shopper, "p1", "9", 0) /\ carts' # carts)
ClearAgainChanges == ENABLED (ClearCart(Shopper) /\ carts' # carts)

\* C21: update, remove, clear, checkout and cancel are safe to send again:
\* once the response to one of them is out, the same request leaves the
\* cart as it is; a checkout sent after a checkout that wrote something, and
\* a cancel of an order that is cancelled, leave products, orders and cart
\* as they found them.
C21_RetrySafe ==
    /\ [][ (req[Shopper].pc = "done" /\ Respond(Shopper)) =>
              /\ req[Shopper].op = "remove" => ~RemoveAgainChanges'
              /\ req[Shopper].op = "update" => ~UpdateAgainChanges'
              /\ req[Shopper].op = "clear" => ~ClearAgainChanges' ]_vars
    /\ [](\A s \in Sessions :
            (/\ Answered(s, "checkout") /\ ~Fresh
             /\ \/ req[s].pre.orders # <<>>
                \/ \E p \in Products : req[s].pre.products[p].soldCount # 0) =>
                /\ products = req[s].pre.products
                /\ orders = req[s].pre.orders
                /\ carts[s] = req[s].pre.cart)
    /\ [](\A s \in Sessions :
            (/\ Answered(s, "cancel")
             /\ req[s].pre.id <= Len(req[s].pre.orders)
             /\ req[s].pre.orders[req[s].pre.id].status = "cancelled") =>
                /\ products = req[s].pre.products
                /\ orders = req[s].pre.orders
                /\ carts[s] = req[s].pre.cart)

\* C22: the effective price of a product is its sale price when a sale price
\* is set and lower than the list price, and the list price otherwise.
C22_EffectivePrice ==
    \A p \in Products :
        products[p].exists =>
            effectivePrice(products[p]) =
                IF /\ products[p].salePrice # <<>>
                   /\ products[p].salePrice[1] < products[p].price
                THEN products[p].salePrice[1]
                ELSE products[p].price

\* the line a cancel request is about to restore names a product that is
\* gone or a size that is not in the product's list
LineUnmatched(s) ==
    /\ req[s].pc = "restore"
    /\ LET item == req[s].items[req[s].i] IN
       \/ ~products[item.product].exists
       \/ \A j \in 1..Len(products[item.product].sizes) :
              products[item.product].sizes[j].size # item.size

\* C23: restoring an order line whose product is gone or whose size is no
\* longer listed creates no size entry and changes the stock of no size entry,
\* and the cancel goes on: the request ends with 200 and the order cancelled.
C23_UnmatchedRestore ==
    [][ \A s \in Sessions :
          /\ (LineUnmatched(s) /\ req'[s] # req[s]) =>
                /\ req'[s].pc \in {"restore", "cancel_save"}
                /\ \A p \in Products :
                       /\ products'[p].exists = products[p].exists
                       /\ products[p].exists => products'[p].sizes = products[p].sizes
          /\ (req[s].pc = "cancel_save" /\ req'[s] # req[s]) =>
                /\ req'[s].pc = "done" /\ req'[s].code = 200
                /\ orders'[req[s].id].status = "cancelled" ]_vars

\* an order of size 9 cancelled after the admin took size 9 off the product
C23_Witness ==
    \E s \in Sessions :
        /\ Answered(s, "cancel")
        /\ req[s].code = 200
        /\ orders[req[s].pre.id].status = "cancelled"
        /\ products["p1"].exists
        /\ \A j \in 1..Len(products["p1"].sizes) : products["p1"].sizes[j].size # 9
        /\ \E k \in 1..Len(orders[req[s].pre.id].items) :
               orders[req[s].pre.id].items[k].size = 9

\* C24: the totals of a cart are determined by its item list: an empty list
\* has the totals clear and checkout store, all zero, and a list of lines has
\* subtotal = sum of price x quantity, shipping 0 from 100.00 and 9.99 below,
\* tax 8% and total their sum.
C24_TotalsOfItems ==
    \A s \in Sessions :
        LET cart == carts[s].cart IN
        IF cart.items = <<>>
        THEN cart = EmptyCart
        ELSE /\ TotalsOf(cart)
             /\ cart.shipping = IF cart.subtotal >= 1000000 THEN 0 ELSE 99900

\* the quantity of a product/size on the orders that are not cancelled
RECURSIVE OrderedQty(_, _, _)
OrderedQty(os, p, size) ==
    IF os = <<>> THEN 0
    ELSE (IF os[1].status = "cancelled" THEN 0
          ELSE LET lines == [k \in 1..Len(os[1].items) |->
                               [productId |-> os[1].items[k].product,
                                size |-> os[1].items[k].size,
                                quantity |-> os[1].items[k].quantity]]
               IN LineQty(lines, p, size))
         + OrderedQty(Tail(os), p, size)

\* the stock the catalog starts with
InitialStock(p, size) ==
    CASE p = "p1" /\ size = 9 -> InitStock
      [] p = "p1" /\ size = 11 -> 1
      [] p = "p2" /\ size = 10 -> 1
      [] OTHER -> 0

\* C25: between requests, for every product/size, the stock plus the quantity
\* on the orders that are not cancelled is the initial stock.
C25_StockConserved ==
    AllIdle =>
        \A p \in Products, size \in {9, 10, 11} :
            products[p].exists =>
                StockOf(products[p], size) + OrderedQty(orders, p, size)
                    = InitialStock(p, size)

\* the units an order took, over all its lines
RECURSIVE TakenQty(_)
TakenQty(items) ==
    IF items = <<>> THEN 0 ELSE items[1].quantity + TakenQty(Tail(items))

\* C26: the units given back to the stock for an order, over all the cancel
\* requests made for it, never exceed the units the order took.
C26_RestoredOnce ==
    \A id \in 1..Len(orders) : ledger[id].given <= TakenQty(orders[id].items)

\* C27: the stock of every size of every product is never negative.
C27_StockNonNegative ==
    \A p \in Products :
        products[p].exists =>
            \A j \in 1..Len(products[p].sizes) : products[p].sizes[j].stock >= 0

\* one session has cancelled an order while the other is between the stock
\* check and the save of its checkout, and the stock is down to 0
C27_Witness ==
    /\ StockOf(products["p1"], 9) = 0
    /\ \E id \in 1..Len(orders) : orders[id].status = "cancelled"
    /\ \E s \in Sessions : req[s].pc \notin {"idle", "done"} /\ req[s].op = "checkout"

\* a cart as the add handler means to keep it: every line has a quantity of
\* at least 1 and no two lines have the same product, size and color
Regular(items) ==
    /\ \A k \in 1..Len(items) : items[k].quantity >= 1
    /\ \A j, k \in 1..Len(items) :
           (/\ items[j].productId = items[k].productId
            /\ items[j].size = items[k].size
            /\ items[j].color = items[k].color) => j = k

\* C28: after a successful add of a quantity of at least 1 that leaves a
\* cart of regular lines, the quantity the cart holds of the product and
\* size over all its lines does not exceed the stock the request read.
C28_CartWithinStock ==
    [][ \A s \in Sessions, p \in Products, z \in SizeInputs, c \in ColorInputs,
           q \in QtyInputs :
          (/\ req[s] = Idle /\ req'[s].pc = "done" /\ req'[s].op = "add"
           /\ req'[s].code = 200
           /\ q >= 1
           /\ AddToCart(s, p, z, c, q)
           /\ Regular(carts'[s].cart.items)) =>
              LineQty(carts'[s].cart.items, p, ParseFloat(z))
                  <= StockOf(products[p], ParseFloat(z)) ]_vars

\* C29: after a successful remove, or a successful update with quantity <= 0,
\* on a cart whose lines are regular, the cart has no line of the named
\* product and size.
C29_NoLineLeft ==
    [][ \A s \in Sessions, p \in Products, z \in SizeInputs :
          /\ (/\ req[s] = Idle /\ req'[s].pc = "done" /\ req'[s].op = "remove"
              /\ req'[s].code = 200
              /\ Regular(carts[s].cart.items)
              /\ RemoveFromCart(s, p, z)) =>
                 Named(carts'[s].cart.items, p, z) = {}
          /\ \A q \in QtyInputs :
               (/\ q <= 0
                /\ req[s] = Idle /\ req'[s].pc = "done" /\ req'[s].op = "update"
                /\ req'[s].code = 200
                /\ Regular(carts[s].cart.items)
                /\ UpdateCart(s, p, z, q)) =>
                   Named(carts'[s].cart.items, p, z) = {} ]_vars

\* C30: a cancel request of a logged-in user for an order of another user
\* is answered 404 in the step that looks the order up, and the step changes
\* no order and no product; a cancel request that goes on to restore stock
\* or to save the order is the owner's.
C30_ForeignCancel ==
    [][ \A s \in Sessions :
          /\ \A id \in OrderIds :
               (/\ req[s] = Idle /\ req'[s] # Idle
                /\ req'[s].op = "cancel"
                /\ req'[s].pre.id = id
                /\ users[s] # NoUser
                /\ id <= Len(orders)
                /\ orders[id].user # users[s]) =>
                   /\ req'[s].pc = "done"
                   /\ req'[s].code = 404
                   /\ products' = products
                   /\ orders' = orders
          /\ req'[s].pc \in {"restore", "cancel_save"} =>
                 orders'[req'[s].id].user = users'[s] ]_vars

\* the other user's cancel of a confirmed order is answered 404
C30_Witness ==
    \E s \in Sessions :
        /\ Answered(s, "cancel")
        /\ req[s].code = 404
        /\ req[s].pre.id <= Len(orders)
        /\ orders[req[s].pre.id].user # users[s]
        /\ orders[req[s].pre.id].status = "confirmed"

====
